---- MODULE Spec2Model ----
(***************************************************************************)
(* Document image bookkeeping of obsidian-image-manager:                   *)
(*   - MagicVariableProcessor   (src/src/manager/magic_variable.ts)        *)
(*   - DocumentImageManager     (src/src/manager/document_manager.ts)      *)
(*   - ImageManagerFactory      (src/src/const/settings.ts, lines 61-153)  *)
(* over an abstract vault (folders, binary files, JSON sidecars).          *)
(*                                                                         *)
(* Paths are structured values instead of strings:                         *)
(*   a folder is the token sequence produced by the folder template,       *)
(*   a file name is [stem, ts, ext] (ts = 0: no timestamp suffix),         *)
(*   a file path is [folder, name].                                        *)
(* All documents live in one directory, so dirname(mdPath) is constant and *)
(* a document path is represented by its base name ("a" for "a.md").       *)
(* Which directory that is shows only in the references handed to the      *)
(* editor: a reference is computed for each directory of MdDirs, with the  *)
(* paths spelled out as strings, a string being a sequence of pieces none  *)
(* of which contains "." or "/" unless it is that character.               *)
(***************************************************************************)
EXTENDS Naturals, Sequences, FiniteSets

VARIABLES
    vault,      \* documents (TFile) present in the host vault
    settings,   \* plugin.settings: isAutoUpload, isDeleteTemp, tempFolderPath
    fs,         \* vault adapter: [dirs, bin, json]
    mgr,        \* heap of DocumentImageManager instances, id -> fields
    managers,   \* ImageManagerFactory.managers: mdPath -> instance id
    calls,      \* getManager calls that missed the cache: position, document, manager
    batch,      \* the uploadAllImages loop in progress, if any
    steps,      \* number of triggers handled so far (bounds the exploration)
    faults,     \* number of I/O calls that have thrown so far
    last,       \* the operation that completed in the last step, and its outcome
    tasks       \* manager methods suspended at an await, when calls overlap

vars == <<vault, settings, fs, mgr, managers, calls, batch, steps, faults, last, tasks>>

----------------------------------------------------------------------------
(* Bounds *)

MaxClock == 1
MaxImages == 2
MaxCalls == 2
MaxManagers == 3
MaxSteps == 6
MaxFaults == 1
MaxRaceCalls == 3
MaxTasks == 2

DocNames == {"a", "b"}
Clock == 1..MaxClock
CallIds == 1..MaxCalls
TaskIds == 1..MaxTasks
ManagerIds == 1..MaxManagers

----------------------------------------------------------------------------
(* Names and paths *)

EmptyName == [stem |-> "", ts |-> 0, ext |-> ""]
ImageName(stem) == [stem |-> stem, ts |-> 0, ext |-> ".png"]
SourceNames == {ImageName("img")}

Path(folder, name) == [folder |-> folder, name |-> name]
EmptyPath == Path(<<>>, EmptyName)

\* `${nameWithoutExt}_${timestamp}${ext}`
NameWithTimestamp(name, timestamp) == [name EXCEPT !.ts = timestamp]

\* basename(this.mdPath, '.md') + '.json', joined to the folder
getJsonPath(m, imageFolderPath) ==
    Path(imageFolderPath, [stem |-> m.mdPath, ts |-> 0, ext |-> ".json"])

----------------------------------------------------------------------------
(* Magic variables.  A template is a sequence of tokens; a token is either *)
(* literal text or a placeholder {{name}}.                                 *)

Lit(text) == [var |-> FALSE, text |-> text]
Var(name) == [var |-> TRUE, text |-> name]

DefaultFolderTemplate == <<Lit("_assets."), Var("filename")>>
SharedFolderTemplate == <<Lit("_assets")>>
FolderTemplates == {DefaultFolderTemplate, SharedFolderTemplate}

\* getContext: filename, title and workspace only when the path is a TFile
\* of the vault; date, time and random always (their values do not occur in
\* FolderTemplates and are fixed here).
getContext(v, filePath) ==
    IF filePath \in v
    THEN [filename |-> filePath, title |-> filePath, workspace |-> "vault",
          date |-> "2026-01-01", time |-> "120000", random |-> "k3x9q2ab"]
    ELSE [date |-> "2026-01-01", time |-> "120000", random |-> "k3x9q2ab"]

\* what every context inherits: the context is an object literal, and
\* `variable in context` also finds the members of Object.prototype, whose
\* values the replacement turns into strings
ObjectPrototype ==
    [constructor |-> "function Object() { [native code] }",
     toString |-> "function toString() { [native code] }"]

\* template.replace(/\{\{(\w+)\}\}/g, ...): a placeholder whose name is
\* `in` the context becomes its value, any other token stays as it is.
process(template, context) ==
    [i \in DOMAIN template |->
        IF template[i].var /\ template[i].text \in DOMAIN context
        THEN Lit(context[template[i].text])
        ELSE IF template[i].var /\ template[i].text \in DOMAIN ObjectPrototype
        THEN Lit(ObjectPrototype[template[i].text])
        ELSE template[i]]

\* normalizePath(join(dirname(mdPath), process(tempFolderPath, context)))
getImageFolderPath(v, s, mdPath) ==
    process(s.tempFolderPath, getContext(v, mdPath))

----------------------------------------------------------------------------
(* Paths as strings *)

\* dirname(mdPath): "." for a document in the vault root
MdDirs == {".", "notes"}

TextPieces(text) == IF text = "_assets." THEN <<"_assets", ".">> ELSE <<text>>
TokenPieces(token) ==
    IF token.var THEN <<"{{", token.text, "}}">> ELSE TextPieces(token.text)
RECURSIVE FolderPieces(_)
FolderPieces(folder) ==
    IF folder = <<>> THEN <<>>
    ELSE TokenPieces(Head(folder)) \o FolderPieces(Tail(folder))
ExtPieces(ext) ==
    CASE ext = "" -> <<>>
      [] ext = ".png" -> <<".", "png">>
      [] ext = ".json" -> <<".", "json">>
NamePieces(name) ==
    <<name.stem>> \o (IF name.ts = 0 THEN <<>> ELSE <<"_", "1700000000000">>)
        \o ExtPieces(name.ext)

\* the path of p from the document's directory: join(folder, name)
FromDocument(p) ==
    IF p.folder = <<>> THEN NamePieces(p.name)
    ELSE FolderPieces(p.folder) \o <<"/">> \o NamePieces(p.name)
\* the vault path of p, the string the map is keyed by:
\* normalizePath(join(dirname(mdPath), folder, name))
VaultPath(mdDir, p) ==
    IF mdDir = "." THEN FromDocument(p) ELSE <<mdDir, "/">> \o FromDocument(p)

\* String.prototype.replace(piece, ''): the first occurrence goes
RECURSIVE ReplaceFirst(_, _)
ReplaceFirst(str, piece) ==
    IF str = <<>> THEN <<>>
    ELSE IF Head(str) = piece THEN Tail(str)
    ELSE <<Head(str)>> \o ReplaceFirst(Tail(str), piece)

\* normalizePath(absolutePath).replace(normalizePath(mdDir), ''), less one
\* leading "/"
getRelativePath(mdDir, absolutePath) ==
    LET relativePath == ReplaceFirst(absolutePath, mdDir)
    IN  IF relativePath # <<>> /\ Head(relativePath) = "/"
        THEN Tail(relativePath) ELSE relativePath

----------------------------------------------------------------------------
(* Image records and the images Map (insertion ordered, keys unique) *)

createImageInfo(localPath) ==
    [localPath |-> localPath, remotePath |-> EmptyPath, isUploaded |-> FALSE,
     originalName |-> EmptyName]

RemoteUrl == Path(<<Lit("https://x")>>, ImageName("y"))
\* what uploader.upload may resolve to: a comma separated list of URLs
UploadResults == {<<>>, <<RemoteUrl>>}
\* result.split(","): never an empty array, "" splits to [""]
Split(result) == IF result = <<>> THEN <<EmptyPath>> ELSE result

MapKeys(im) == {im[i].key : i \in DOMAIN im}
MapHas(im, k) == k \in MapKeys(im)
MapIndex(im, k) == CHOOSE i \in DOMAIN im : im[i].key = k
MapGet(im, k) == im[MapIndex(im, k)].info
MapSet(im, k, info) ==
    IF MapHas(im, k)
    THEN [im EXCEPT ![MapIndex(im, k)] = [key |-> k, info |-> info]]
    ELSE Append(im, [key |-> k, info |-> info])
MapDelete(im, k) ==
    IF MapHas(im, k)
    THEN LET j == MapIndex(im, k)
         IN  [i \in 1..(Len(im) - 1) |-> IF i < j THEN im[i] ELSE im[i + 1]]
    ELSE im

----------------------------------------------------------------------------
(* Vault adapter *)

EmptyFs == [dirs |-> {}, bin |-> {}, json |-> [q \in {} |-> {}]]

existsDir(f, folder) == folder \in f.dirs
existsFile(f, p) == p \in f.bin \/ p \in DOMAIN f.json
mkdir(f, folder) == [f EXCEPT !.dirs = @ \cup {folder}]
writeBinary(f, p) ==
    [f EXCEPT !.bin = @ \cup {p},
              !.json = [q \in DOMAIN @ \ {p} |-> @[q]]]
writeJson(f, p, content) ==
    [f EXCEPT !.bin = @ \ {p},
              !.json = [q \in DOMAIN @ \cup {p} |-> IF q = p THEN content ELSE @[q]]]
remove(f, p) ==
    [f EXCEPT !.bin = @ \ {p},
              !.json = [q \in DOMAIN @ \ {p} |-> @[q]]]
\* rmdir(folder, true): the folder and everything in it
rmdir(f, folder) ==
    [dirs |-> f.dirs \ {folder},
     bin |-> {p \in f.bin : p.folder # folder},
     json |-> [q \in {p \in DOMAIN f.json : p.folder # folder} |-> f.json[q]]]
\* list(folder).files
list(f, folder) ==
    {p \in f.bin \cup DOMAIN f.json : p.folder = folder}

----------------------------------------------------------------------------
(* DocumentImageManager.  Every method is an operator from the vault and   *)
(* the manager's fields to the vault and fields it leaves behind, with its *)
(* result.  An I/O call that can throw is a "fault" argument naming the    *)
(* call that throws in this invocation.                                    *)

\* constructor
newManager(v, s, mdPath) ==
    [mdPath |-> mdPath,
     images |-> <<>>,
     imageFolderPath |-> getImageFolderPath(v, s, mdPath)]

\* a key that is a canonical array index ("7"): a file without extension kept
\* next to a document of the vault root (empty folder template)
IsArrayIndex(k) == k.folder = <<>> /\ k.name.ext = "" /\ k.name.ts = 0 /\ k.name.stem = "7"

\* Object.fromEntries(this.images): the properties of an object are kept with
\* array-index keys first and the other keys in insertion order, and that is
\* the order JSON.stringify writes and Object.entries reads back
fromEntries(images) ==
    LET index(e) == IsArrayIndex(e.key)
        other(e) == ~IsArrayIndex(e.key)
    IN  SelectSeq(images, index) \o SelectSeq(images, other)

\* JSON.stringify({mdPath, images: Object.fromEntries(this.images)})
sidecarOf(m) == [mdPath |-> m.mdPath, images |-> fromEntries(m.images)]

\* what JSON.parse makes of a sidecar that does not hold sidecarOf(m): it
\* throws (Unparsable), or yields null (JsonNull), or yields a value with no
\* object under "images": a number, a string, an array, {} (JsonOther)
Unparsable == [parse |-> "throws"]
JsonNull == [parse |-> "null"]
JsonOther == [parse |-> "other"]
Malformed == {Unparsable, JsonNull, JsonOther}

\* JSON.parse, then this.images.clear(), then data.images is read: a throw
\* before the clear leaves the map, a throw after it leaves the map empty
loadFromJson(f, m) ==
    LET jsonPath == getJsonPath(m, m.imageFolderPath)
    IN  IF jsonPath \notin DOMAIN f.json
        THEN [m |-> m, ok |-> FALSE]
        ELSE LET data == f.json[jsonPath]
             IN  IF "images" \in DOMAIN data
                 THEN [m |-> [m EXCEPT !.images = data.images], ok |-> TRUE]
                 ELSE IF data.parse = "throws"
                 THEN [m |-> m, ok |-> FALSE]
                 ELSE IF data.parse = "null"
                 THEN [m |-> [m EXCEPT !.images = <<>>], ok |-> FALSE]
                 ELSE [m |-> [m EXCEPT !.images = <<>>], ok |-> TRUE]

\* saveToJson that writes nothing for an empty map and leaves what is there
saveToJson_keepsStale(f, m, fails) ==
    LET jsonPath == getJsonPath(m, m.imageFolderPath)
    IN  IF fails
        THEN [fs |-> f, ok |-> FALSE]
        ELSE IF Len(m.images) = 0
        THEN [fs |-> f, ok |-> TRUE]
        ELSE LET f1 == IF ~existsDir(f, m.imageFolderPath)
                       THEN mkdir(f, m.imageFolderPath) ELSE f
             IN  [fs |-> writeJson(f1, jsonPath, sidecarOf(m)), ok |-> TRUE]

saveToJson(f, m, fails) ==
    LET jsonPath == getJsonPath(m, m.imageFolderPath)
    IN  IF fails
        THEN [fs |-> f, ok |-> FALSE]
        ELSE IF Len(m.images) = 0
        THEN LET f1 == IF existsFile(f, jsonPath) THEN remove(f, jsonPath) ELSE f
                 f2 == IF existsDir(f1, m.imageFolderPath)
                       THEN rmdir(f1, m.imageFolderPath) ELSE f1
             IN  [fs |-> f2, ok |-> TRUE]
        ELSE LET f1 == IF ~existsDir(f, m.imageFolderPath)
                       THEN mkdir(f, m.imageFolderPath) ELSE f
             IN  [fs |-> writeJson(f1, jsonPath, sidecarOf(m)), ok |-> TRUE]

copyImageToFolder(f, m, sourceName, now, fails) ==
    LET f1 == IF ~existsDir(f, m.imageFolderPath)
              THEN mkdir(f, m.imageFolderPath) ELSE f
        targetPath == Path(m.imageFolderPath, sourceName)
        final == IF existsFile(f1, targetPath)
                 THEN Path(m.imageFolderPath, NameWithTimestamp(sourceName, now))
                 ELSE targetPath
    IN  IF fails
        THEN [fs |-> f1, raised |-> TRUE, target |-> EmptyPath]
        ELSE [fs |-> writeBinary(f1, final), raised |-> FALSE, target |-> final]

UploadFaults == {"none", "upload", "save", "remove"}

\* uploadImage with the save left to the end of the batch: the record is
\* updated in memory and nothing is written after the upload
uploadImage_unsaved(f, m, s, localPath, result, fault) ==
    IF ~MapHas(m.images, localPath)
    THEN [fs |-> f, m |-> m, ok |-> FALSE, handed |-> FALSE, saved |-> FALSE]
    ELSE IF MapGet(m.images, localPath).isUploaded
    THEN [fs |-> f, m |-> m, ok |-> TRUE, handed |-> FALSE, saved |-> FALSE]
    ELSE IF fault = "upload"
    THEN [fs |-> f, m |-> m, ok |-> FALSE, handed |-> TRUE, saved |-> FALSE]
    ELSE LET info == [MapGet(m.images, localPath) EXCEPT
                         !.remotePath = Split(result)[1], !.isUploaded = TRUE]
             m1 == [m EXCEPT !.images = MapSet(@, localPath, info)]
         IN  IF s.isDeleteTemp /\ existsFile(f, localPath)
             THEN IF fault = "remove"
                  THEN [fs |-> f, m |-> m1, ok |-> FALSE, handed |-> TRUE, saved |-> TRUE]
                  ELSE [fs |-> remove(f, localPath), m |-> m1,
                        ok |-> TRUE, handed |-> TRUE, saved |-> TRUE]
             ELSE [fs |-> f, m |-> m1, ok |-> TRUE, handed |-> TRUE, saved |-> TRUE]

uploadImage(f, m, s, localPath, result, fault) ==
    IF ~MapHas(m.images, localPath)
    THEN [fs |-> f, m |-> m, ok |-> FALSE, handed |-> FALSE, saved |-> FALSE]
    ELSE IF MapGet(m.images, localPath).isUploaded
    THEN [fs |-> f, m |-> m, ok |-> TRUE, handed |-> FALSE, saved |-> FALSE]
    ELSE IF fault = "upload"
    THEN [fs |-> f, m |-> m, ok |-> FALSE, handed |-> TRUE, saved |-> FALSE]
    ELSE LET urls == Split(result)
         IN  IF Len(urls) > 0
             THEN LET info == [MapGet(m.images, localPath) EXCEPT
                                  !.remotePath = urls[1], !.isUploaded = TRUE]
                      m1 == [m EXCEPT !.images = MapSet(@, localPath, info)]
                      sv == saveToJson(f, m1, fault = "save")
                  IN  IF s.isDeleteTemp /\ existsFile(sv.fs, localPath)
                      THEN IF fault = "remove"
                           THEN [fs |-> sv.fs, m |-> m1, ok |-> FALSE,
                                 handed |-> TRUE, saved |-> sv.ok]
                           ELSE [fs |-> remove(sv.fs, localPath), m |-> m1,
                                 ok |-> TRUE, handed |-> TRUE, saved |-> sv.ok]
                      ELSE [fs |-> sv.fs, m |-> m1, ok |-> TRUE,
                            handed |-> TRUE, saved |-> sv.ok]
             ELSE [fs |-> f, m |-> m, ok |-> FALSE, handed |-> TRUE, saved |-> FALSE]

AddFaults == {"none", "copy", "save", "upload", "upsave", "remove"}

\* addImage with the record entered in the map before the file is copied
addImage_recordFirst(f, m, s, sourceName, now, result, fault) ==
    LET cp == copyImageToFolder(f, m, sourceName, now, fault = "copy")
    IN  IF cp.raised
        THEN [fs |-> cp.fs,
              m |-> [m EXCEPT !.images =
                        MapSet(@, Path(m.imageFolderPath, sourceName),
                               createImageInfo(Path(m.imageFolderPath, sourceName)))],
              kind |-> "raise", value |-> EmptyPath,
              target |-> EmptyPath, saved |-> FALSE, uploaded |-> FALSE]
        ELSE LET info == [createImageInfo(cp.target) EXCEPT !.originalName = sourceName]
                 m1 == [m EXCEPT !.images = MapSet(@, cp.target, info)]
                 sv == saveToJson(cp.fs, m1, fault = "save")
                 up == uploadImage(sv.fs, m1, s, cp.target, result,
                                   CASE fault = "upload" -> "upload"
                                     [] fault = "upsave" -> "save"
                                     [] fault = "remove" -> "remove"
                                     [] OTHER -> "none")
             IN  IF s.isAutoUpload
                 THEN IF up.ok
                      THEN [fs |-> up.fs, m |-> up.m, kind |-> "remote",
                            value |-> MapGet(up.m.images, cp.target).remotePath,
                            target |-> cp.target, saved |-> sv.ok, uploaded |-> TRUE]
                      ELSE [fs |-> up.fs, m |-> up.m, kind |-> "local",
                            value |-> cp.target, target |-> cp.target, saved |-> sv.ok,
                            uploaded |-> FALSE]
                 ELSE [fs |-> sv.fs, m |-> m1, kind |-> "local",
                       value |-> cp.target, target |-> cp.target, saved |-> sv.ok,
                       uploaded |-> FALSE]

\* the return value is [kind, value]: "raise", the remote URL, or the local
\* target path handed to getRelativePath; saved: what addImage's own
\* saveToJson call returned; uploaded: uploadImage was called and returned
\* true
addImage(f, m, s, sourceName, now, result, fault) ==
    LET cp == copyImageToFolder(f, m, sourceName, now, fault = "copy")
    IN  IF cp.raised
        THEN [fs |-> cp.fs, m |-> m, kind |-> "raise", value |-> EmptyPath,
              target |-> EmptyPath, saved |-> FALSE, uploaded |-> FALSE]
        ELSE LET info == [createImageInfo(cp.target) EXCEPT !.originalName = sourceName]
                 m1 == [m EXCEPT !.images = MapSet(@, cp.target, info)]
                 sv == saveToJson(cp.fs, m1, fault = "save")
                 up == uploadImage(sv.fs, m1, s, cp.target, result,
                                   CASE fault = "upload" -> "upload"
                                     [] fault = "upsave" -> "save"
                                     [] fault = "remove" -> "remove"
                                     [] OTHER -> "none")
             IN  IF s.isAutoUpload
                 THEN IF up.ok
                      THEN [fs |-> up.fs, m |-> up.m, kind |-> "remote",
                            value |-> MapGet(up.m.images, cp.target).remotePath,
                            target |-> cp.target, saved |-> sv.ok, uploaded |-> TRUE]
                      ELSE [fs |-> up.fs, m |-> up.m, kind |-> "local",
                            value |-> cp.target, target |-> cp.target, saved |-> sv.ok,
                            uploaded |-> FALSE]
                 ELSE [fs |-> sv.fs, m |-> m1, kind |-> "local",
                       value |-> cp.target, target |-> cp.target, saved |-> sv.ok,
                       uploaded |-> FALSE]

RemoveFaults == {"none", "remove", "save"}

\* removeImage with the entry dropped from the map before the file is deleted
removeImage_entryFirst(f, m, localPath, fault) ==
    IF ~MapHas(m.images, localPath)
    THEN [fs |-> f, m |-> m, ok |-> FALSE, saved |-> FALSE]
    ELSE LET m1 == [m EXCEPT !.images = MapDelete(@, localPath)]
             f1 == IF existsFile(f, localPath) THEN remove(f, localPath) ELSE f
             sv == saveToJson(f1, m1, fault = "save")
         IN  IF fault = "remove"
             THEN [fs |-> f, m |-> m1, ok |-> FALSE, saved |-> FALSE]
             ELSE [fs |-> sv.fs, m |-> m1, ok |-> TRUE, saved |-> sv.ok]

removeImage(f, m, localPath, fault) ==
    IF ~MapHas(m.images, localPath)
    THEN [fs |-> f, m |-> m, ok |-> FALSE, saved |-> FALSE]
    ELSE IF fault = "remove"
    THEN [fs |-> f, m |-> m, ok |-> FALSE, saved |-> FALSE]
    ELSE LET f1 == IF existsFile(f, localPath) THEN remove(f, localPath) ELSE f
             m1 == [m EXCEPT !.images = MapDelete(@, localPath)]
             sv == saveToJson(f1, m1, fault = "save")
         IN  [fs |-> sv.fs, m |-> m1, ok |-> TRUE, saved |-> sv.ok]

downloadImage(f, m, v, s, url, fails) ==
    LET fileName == url.name
        imageFolderPath == getImageFolderPath(v, s, m.mdPath)
        f1 == IF ~existsDir(f, imageFolderPath) THEN mkdir(f, imageFolderPath) ELSE f
        targetPath == Path(imageFolderPath, fileName)
    IN  \* fetch or writeBinary throws; a URL without a base name makes the
        \* target the folder itself, which cannot be written as a file
        IF fails \/ fileName = EmptyName
        THEN [fs |-> f1, raised |-> TRUE, target |-> EmptyPath]
        ELSE [fs |-> writeBinary(f1, targetPath), raised |-> FALSE, target |-> targetPath]

\* the I/O calls of downloadAllImages that can throw at a record: the
\* adapter.exists of the loop's condition, which is outside the try block,
\* and the download itself, which is inside
DownloadCalls == {"download", "exists"}

\* the loop of downloadAllImages giving up at the first download that fails
RECURSIVE downloadFrom_stopsAtFailure(_, _, _, _, _, _)
downloadFrom_stopsAtFailure(st, v, s, i, failAt, call) ==
    IF i > Len(st.m.images) \/ st.raised \/ ~st.ok
    THEN st
    ELSE LET info == st.m.images[i].info
         IN  IF ~info.isUploaded
             THEN downloadFrom_stopsAtFailure(st, v, s, i + 1, failAt, call)
             ELSE IF info.localPath # EmptyPath /\ failAt = i /\ call = "exists"
             THEN [st EXCEPT !.raised = TRUE]
             ELSE IF info.localPath = EmptyPath \/ ~existsFile(st.fs, info.localPath)
             THEN LET d == downloadImage(st.fs, st.m, v, s, info.remotePath,
                                         failAt = i /\ call = "download")
                      m1 == IF d.raised THEN st.m
                            ELSE [st.m EXCEPT !.images[i].info.localPath = d.target]
                  IN  downloadFrom_stopsAtFailure(
                          [fs |-> d.fs, m |-> m1, ok |-> st.ok /\ ~d.raised,
                           tried |-> st.tried \cup {i},
                           failed |-> IF d.raised THEN st.failed \cup {i} ELSE st.failed,
                           raised |-> FALSE],
                          v, s, i + 1, failAt, call)
             ELSE downloadFrom_stopsAtFailure(st, v, s, i + 1, failAt, call)

\* the for-of loop of downloadAllImages from entry i on;
\* st = [fs, m, ok, tried, failed, raised]: tried and failed are the entries a
\* download was attempted for and failed for, raised: the loop threw
RECURSIVE downloadFrom(_, _, _, _, _, _)
downloadFrom(st, v, s, i, failAt, call) ==
    IF i > Len(st.m.images) \/ st.raised
    THEN st
    ELSE LET info == st.m.images[i].info
         IN  IF ~info.isUploaded
             THEN downloadFrom(st, v, s, i + 1, failAt, call)
             ELSE IF info.localPath # EmptyPath /\ failAt = i /\ call = "exists"
             THEN [st EXCEPT !.raised = TRUE]
             ELSE IF info.localPath = EmptyPath \/ ~existsFile(st.fs, info.localPath)
             THEN LET d == downloadImage(st.fs, st.m, v, s, info.remotePath,
                                         failAt = i /\ call = "download")
                      m1 == IF d.raised THEN st.m
                            ELSE [st.m EXCEPT !.images[i].info.localPath = d.target]
                  IN  downloadFrom([fs |-> d.fs, m |-> m1, ok |-> st.ok /\ ~d.raised,
                                    tried |-> st.tried \cup {i},
                                    failed |-> IF d.raised THEN st.failed \cup {i}
                                               ELSE st.failed,
                                    raised |-> FALSE],
                                   v, s, i + 1, failAt, call)
             ELSE downloadFrom(st, v, s, i + 1, failAt, call)

\* raised: the promise rejects; saves: for each saveToJson call made, the
\* entries attempted before it
downloadAllImages(f, m, v, s, failAt, call, saveFails) ==
    LET st == downloadFrom([fs |-> f, m |-> m, ok |-> TRUE, tried |-> {}, failed |-> {},
                            raised |-> FALSE], v, s, 1, failAt, call)
        sv == saveToJson(st.fs, st.m, saveFails)
    IN  IF st.raised
        THEN [fs |-> st.fs, m |-> st.m, ok |-> FALSE, tried |-> st.tried,
              failed |-> st.failed, saved |-> FALSE, raised |-> TRUE, saves |-> <<>>]
        ELSE [fs |-> sv.fs, m |-> st.m, ok |-> st.ok, tried |-> st.tried,
              failed |-> st.failed, saved |-> sv.ok, raised |-> FALSE,
              saves |-> <<st.tried>>]

\* one pass of the "move all files" loop of renameImageFolder; todo is the
\* part of files.files not handled yet, n counts the files handled so far
RECURSIVE moveFiles(_, _, _, _, _)
moveFiles(st, todo, oldImageFolder, n, failAt) ==
    IF todo = {}
    THEN st
    ELSE LET file == CHOOSE p \in todo : TRUE
             targetPath == Path(st.m.imageFolderPath, file.name)
             f1 == IF file \in DOMAIN st.fs.json
                   THEN writeJson(st.fs, targetPath, st.fs.json[file])
                   ELSE writeBinary(st.fs, targetPath)
             f2 == remove(f1, file)
             im == IF MapHas(st.m.images, file)
                   THEN MapSet(MapDelete(st.m.images, file), targetPath,
                               [MapGet(st.m.images, file) EXCEPT !.localPath = targetPath])
                   ELSE st.m.images
         IN  IF failAt = n + 1
             THEN [st EXCEPT !.raised = TRUE]
             ELSE moveFiles([fs |-> f2, m |-> [st.m EXCEPT !.images = im], raised |-> FALSE],
                            todo \ {file}, oldImageFolder, n + 1, failAt)

RenameFaults ==
    {"none", "exists", "mkdir", "sidecar", "list", "move", "move2", "save", "rmdir"}

\* res is "true", "false" or "raise" (the promise rejects); threw: the I/O
\* call named by fault was reached and threw
renameImageFolder(f, m, v, s, newMdPath, fault) ==
    IF Len(m.images) = 0
    THEN [fs |-> f, m |-> m, res |-> "true", threw |-> FALSE]
    ELSE
    LET oldMdPath == m.mdPath
        oldImageFolder == m.imageFolderPath
        oldJsonPath == getJsonPath(m, oldImageFolder)
        m1 == [m EXCEPT !.mdPath = newMdPath,
                        !.imageFolderPath = getImageFolderPath(v, s, newMdPath)]
        newJsonPath == getJsonPath(m1, m1.imageFolderPath)
        f1 == IF ~existsDir(f, m1.imageFolderPath) THEN mkdir(f, m1.imageFolderPath) ELSE f
        restored == [m1 EXCEPT !.mdPath = oldMdPath, !.imageFolderPath = oldImageFolder]
    IN  IF fault = "exists"
        THEN [fs |-> f, m |-> m1, res |-> "raise", threw |-> TRUE]
        ELSE IF ~existsDir(f, oldImageFolder)
        THEN [fs |-> f, m |-> m1, res |-> "true", threw |-> FALSE]
        ELSE IF fault = "mkdir" /\ ~existsDir(f, m1.imageFolderPath)
        THEN [fs |-> f, m |-> m1, res |-> "raise", threw |-> TRUE]
        ELSE IF oldImageFolder = m1.imageFolderPath
        THEN IF existsFile(f1, oldJsonPath)
             THEN IF fault = "sidecar"
                  THEN [fs |-> f1, m |-> m1, res |-> "raise", threw |-> TRUE]
                  ELSE [fs |-> remove(writeJson(f1, newJsonPath, f1.json[oldJsonPath]),
                                      oldJsonPath),
                        m |-> m1, res |-> "true", threw |-> FALSE]
             ELSE [fs |-> f1, m |-> m1, res |-> "true", threw |-> FALSE]
        ELSE IF fault = "list"
        THEN [fs |-> f1, m |-> restored, res |-> "false", threw |-> TRUE]
        ELSE LET mv == moveFiles([fs |-> f1, m |-> m1, raised |-> FALSE],
                                 list(f1, oldImageFolder), oldImageFolder, 0,
                                 CASE fault = "move" -> 1 [] fault = "move2" -> 2
                                   [] OTHER -> 0)
                 back == [mv.m EXCEPT !.mdPath = oldMdPath,
                                      !.imageFolderPath = oldImageFolder]
                 sv == saveToJson(mv.fs, mv.m, fault = "save")
             IN  IF mv.raised
                 THEN [fs |-> mv.fs, m |-> back, res |-> "false", threw |-> TRUE]
                 ELSE IF fault = "rmdir"
                 THEN [fs |-> sv.fs, m |-> back, res |-> "false", threw |-> TRUE]
                 ELSE [fs |-> rmdir(sv.fs, oldImageFolder), m |-> mv.m, res |-> "true",
                       threw |-> ~sv.ok]

----------------------------------------------------------------------------
(* ImageManagerFactory and the triggers that drive it *)

NoFunction == [x \in {} |-> {}]
\* nothing to record of the step taken
Quiet == [op |-> "none"]
NoCall == [pc |-> "idle", doc |-> "", inst |-> 0, valid |-> TRUE]
\* pending: keys not uploaded when the loop started; handed: keys passed to
\* uploader.upload, in order; failed: keys whose uploadImage returned false
NoBatch ==
    [inst |-> 0, idx |-> 0, ok |-> TRUE, done |-> {}, lost |-> {},
     pending |-> {}, handed |-> <<>>, failed |-> {}]
Idle == batch.inst = 0
\* a method call that is not in progress; of one in progress: the method, the
\* await it is suspended at, the path it works on, the source name of
\* addImage, the object saveToJson built and has yet to write (data) with the
\* keys whose records have left the map since (gone), the position of the
\* iterator of uploadAllImages, whether uploadImage has been entered (up) and
\* whether the imageInfo it holds is still the record of the map (held)
NoTask ==
    [op |-> "none", pc |-> "idle", key |-> EmptyPath, name |-> EmptyName,
     data |-> <<>>, gone |-> {}, idx |-> 0, up |-> FALSE, held |-> FALSE]

\* instances still referenced by the cache, a getManager call or the batch
Live(cache, cl, b) ==
    {cache[d] : d \in DOMAIN cache}
        \cup {cl[c].inst : c \in {x \in CallIds : cl[x].pc # "idle"}}
        \cup ({b.inst} \ {0})
Collect(heap, cache, cl, b) ==
    [i \in DOMAIN heap \cap Live(cache, cl, b) |-> heap[i]]
FreeIds == ManagerIds \ DOMAIN mgr
NewId == CHOOSE i \in FreeIds : \A j \in FreeIds : i <= j

\* a rename or removal of a cache entry ends the comparison of the handles
\* handed out for the documents it touches
Invalidate(cl, docs) ==
    [c \in CallIds |-> IF cl[c].doc \in docs THEN [cl[c] EXCEPT !.valid = FALSE] ELSE cl[c]]

\* A trigger (paste, drop, menu command) calls getManager(file.path) and then
\* one method of the manager it got.  handle.c = 0: getManager hit the cache
\* and the method runs on the cached manager; handle.c > 0: the getManager
\* call c missed the cache, has returned, and the method runs on its manager.
Handles ==
    {[c |-> 0, inst |-> managers[d]] : d \in DOMAIN managers \cap vault}
        \cup {[c |-> c, inst |-> calls[c].inst] : c \in {x \in CallIds : calls[x].pc = "ready"}}
Release(cl, h) == IF h.c = 0 THEN cl ELSE [cl EXCEPT ![h.c] = NoCall]

\* loadSettings: DEFAULT_SETTINGS overlaid by whatever the user saved earlier
DEFAULT_SETTINGS ==
    [isAutoUpload |-> TRUE, isDeleteTemp |-> FALSE,
     tempFolderPath |-> DefaultFolderTemplate]
SettingsSpace ==
    [isAutoUpload : BOOLEAN, isDeleteTemp : BOOLEAN, tempFolderPath : FolderTemplates]

\* a trigger is handled; faulty: one of its I/O calls throws
Trigger(faulty) ==
    /\ steps < MaxSteps
    /\ steps' = steps + 1
    /\ faulty => faults < MaxFaults
    /\ faults' = IF faulty THEN faults + 1 ELSE faults
    /\ UNCHANGED tasks
\* a further step of a trigger already counted
Continue(faulty) ==
    /\ steps' = steps
    /\ faulty => faults < MaxFaults
    /\ faults' = IF faulty THEN faults + 1 ELSE faults
    /\ UNCHANGED tasks

Init ==
    /\ vault = {"a"}
    /\ settings \in SettingsSpace
    /\ fs = EmptyFs
    /\ mgr = NoFunction
    /\ managers = NoFunction
    /\ calls = [c \in CallIds |-> NoCall]
    /\ batch = NoBatch
    /\ steps = 0
    /\ faults = 0
    /\ last = Quiet
    /\ tasks = [c \in TaskIds |-> NoTask]

\* getManager missing the cache, up to its await: the manager is constructed
\* and the call suspends in loadFromJson
GetManagerStart(c, d) ==
    /\ Trigger(FALSE)
    /\ calls[c].pc = "idle"
    /\ \A x \in CallIds : x < c => calls[x].pc # "idle"
    /\ d \in vault
    /\ d \notin DOMAIN managers
    /\ FreeIds # {}
    /\ calls' = [calls EXCEPT ![c] = [pc |-> "loading", doc |-> d,
                                      inst |-> NewId, valid |-> TRUE]]
    /\ mgr' = [i \in DOMAIN mgr \cup {NewId} |->
                  IF i = NewId THEN newManager(vault, settings, d) ELSE mgr[i]]
    /\ last' = Quiet
    /\ UNCHANGED <<vault, settings, fs, managers, batch>>

\* getManager after the await: loadFromJson completes, the manager is cached
\* and returned
GetManagerFinish(c) ==
    /\ Trigger(FALSE)
    /\ calls[c].pc = "loading"
    /\ LET i == calls[c].inst
           ld == loadFromJson(fs, mgr[i])
           cache == [d \in DOMAIN managers \cup {calls[c].doc} |->
                        IF d = calls[c].doc THEN i ELSE managers[d]]
           cl == [calls EXCEPT ![c].pc = "ready"]
       IN  /\ managers' = cache
           /\ calls' = cl
           /\ mgr' = Collect([mgr EXCEPT ![i] = ld.m], cache, cl, batch)
    /\ last' = Quiet
    /\ UNCHANGED <<vault, settings, fs, batch>>

removeManager(cache, mdPath) ==
    [d \in DOMAIN cache \ {mdPath} |-> cache[d]]

\* [fs, heap, cache, res, threw]
renameManager(f, heap, cache, v, s, oldPath, newPath, fault) ==
    IF oldPath \notin DOMAIN cache
    THEN [fs |-> f, heap |-> heap, cache |-> cache, res |-> "false", threw |-> FALSE]
    ELSE LET i == cache[oldPath]
             rn == renameImageFolder(f, heap[i], v, s, newPath, fault)
             set == [d \in DOMAIN cache \cup {newPath} |->
                        IF d = newPath THEN i ELSE cache[d]]
         IN  [fs |-> rn.fs,
              heap |-> [heap EXCEPT ![i] = rn.m],
              cache |-> IF rn.res = "true" THEN removeManager(set, oldPath) ELSE cache,
              res |-> rn.res, threw |-> rn.threw]

\* what holds of a manager's records and the vault: recorded with the outcome
\* of an operation, since the manager may be dropped right after it
UploadedAreLocal(f, m) ==
    \A i \in DOMAIN m.images :
        m.images[i].info.isUploaded =>
            /\ m.images[i].info.localPath # EmptyPath
            /\ existsFile(f, m.images[i].info.localPath)
            /\ m.images[i].info.localPath.folder = m.imageFolderPath

sidecarExists(f, m) == existsFile(f, getJsonPath(m, m.imageFolderPath))

\* the string getRelativePath returns for p, for each directory the document
\* may be kept in
LocalReference(p) == [mdDir \in MdDirs |-> getRelativePath(mdDir, VaultPath(mdDir, p))]

\* `![name](target)`; kind "empty" is the empty string, alt is the image name
\* without its extension, and the target is the remote URL or the local
\* reference
getMarkdownReference(m, localPath) ==
    IF ~MapHas(m.images, localPath)
    THEN [kind |-> "empty", alt |-> "", url |-> EmptyPath,
          path |-> LocalReference(EmptyPath)]
    ELSE LET imageInfo == MapGet(m.images, localPath)
             alt == IF localPath.name.ext = "" THEN "" ELSE localPath.name.stem
         IN  IF imageInfo.isUploaded /\ imageInfo.remotePath # EmptyPath
             THEN [kind |-> "remote", alt |-> alt, url |-> imageInfo.remotePath,
                   path |-> LocalReference(EmptyPath)]
             ELSE [kind |-> "local", alt |-> alt, url |-> EmptyPath,
                   path |-> LocalReference(localPath)]

\* what is recorded of an addImage call with outcome a, made on a manager
\* holding the map `before` over the vault f; returned: what addImage returns
\* when it is a local reference
AddImageReturned(a, before, f, fault) ==
    [op |-> "addImage", kind |-> a.kind,
     existed |-> existsFile(f, a.target),
     hadKey |-> MapHas(before, a.target),
     wasEmpty |-> Len(before) = 0,
     saved |-> a.saved,
     sidecar |-> sidecarExists(a.fs, a.m),
     folder |-> existsDir(a.fs, a.m.imageFolderPath),
     uploaded |-> a.uploaded,
     copyFailed |-> fault = "copy",
     same |-> a.m.images = before,
     kept |-> a.kind # "raise" /\ MapHas(a.m.images, a.target),
     url |-> IF a.kind = "remote" THEN a.value ELSE EmptyPath,
     returned |-> IF a.kind = "local" THEN LocalReference(a.value)
                  ELSE LocalReference(EmptyPath),
     target |-> a.target,
     mdPath |-> a.m.mdPath]

AddImage(h, sourceName, now, result, fault) ==
    /\ Trigger(fault # "none")
    /\ Idle
    /\ LET a == addImage(fs, mgr[h.inst], settings, sourceName, now, result, fault)
           cl == Release(calls, h)
       IN  /\ Len(a.m.images) <= MaxImages
           /\ fs' = a.fs
           /\ calls' = cl
           /\ mgr' = Collect([mgr EXCEPT ![h.inst] = a.m], managers, cl, batch)
           /\ last' = AddImageReturned(a, mgr[h.inst].images, fs, fault)
    /\ UNCHANGED <<vault, settings, managers, batch>>

\* what is recorded of a removeImage call with outcome r
RemoveImageReturned(r, before, f, localPath, fault) ==
    [op |-> "removeImage",
     known |-> MapHas(before, localPath),
     existed |-> existsFile(f, localPath),
     ok |-> r.ok,
     stillKnown |-> MapHas(r.m.images, localPath),
     fault |-> fault,
     empty |-> Len(r.m.images) = 0,
     saved |-> r.saved,
     sidecar |-> sidecarExists(r.fs, r.m),
     folder |-> existsDir(r.fs, r.m.imageFolderPath)]

RemoveImage(h, localPath, fault) ==
    /\ Trigger(fault # "none")
    /\ Idle
    /\ LET r == removeImage(fs, mgr[h.inst], localPath, fault)
           cl == Release(calls, h)
       IN  /\ fs' = r.fs
           /\ calls' = cl
           /\ mgr' = Collect([mgr EXCEPT ![h.inst] = r.m], managers, cl, batch)
           /\ last' = RemoveImageReturned(r, mgr[h.inst].images, fs, localPath, fault)
    /\ UNCHANGED <<vault, settings, managers, batch>>

\* the loop of uploadAllImages skips the entries already uploaded: the index
\* of the next entry it calls uploadImage on, 0 when the loop ends
RECURSIVE NextPending(_, _)
NextPending(images, from) ==
    IF from > Len(images) THEN 0
    ELSE IF ~images[from].info.isUploaded THEN from
    ELSE NextPending(images, from + 1)

Pending(images) == {images[i].key : i \in {j \in DOMAIN images : ~images[j].info.isUploaded}}

\* what uploadAllImages returns, with the records it leaves not uploaded
UploadAllReturned(b, images) ==
    [op |-> "uploadAllImages", ok |-> b.ok, done |-> b.done, lost |-> b.lost,
     pending |-> b.pending, handed |-> b.handed, failed |-> b.failed,
     left |-> Pending(images)]

\* uploadAllImages that passes over the first record it should upload
UploadAllStart_fromSecond(h) ==
    /\ Trigger(FALSE)
    /\ Idle
    /\ LET first == NextPending(mgr[h.inst].images, 1)
           n == IF first = 0 THEN 0 ELSE NextPending(mgr[h.inst].images, first + 1)
           b == [NoBatch EXCEPT !.inst = h.inst, !.idx = n,
                                !.pending = Pending(mgr[h.inst].images)]
           cl == Release(calls, h)
       IN  /\ calls' = cl
           /\ batch' = IF n = 0 THEN NoBatch ELSE b
           /\ mgr' = Collect(mgr, managers, cl, batch')
           /\ last' = IF n = 0 THEN UploadAllReturned(b, mgr[h.inst].images) ELSE Quiet
    /\ UNCHANGED <<vault, settings, fs, managers>>

\* uploadAllImages up to its first await: the first upload is in flight, or
\* nothing is left to upload and the call returns
UploadAllStart(h) ==
    /\ Trigger(FALSE)
    /\ Idle
    /\ LET n == NextPending(mgr[h.inst].images, 1)
           b == [NoBatch EXCEPT !.inst = h.inst, !.idx = n,
                                !.pending = Pending(mgr[h.inst].images)]
           cl == Release(calls, h)
       IN  /\ calls' = cl
           /\ batch' = IF n = 0 THEN NoBatch ELSE b
           /\ mgr' = Collect(mgr, managers, cl, batch')
           /\ last' = IF n = 0 THEN UploadAllReturned(b, mgr[h.inst].images) ELSE Quiet
    /\ UNCHANGED <<vault, settings, fs, managers>>

\* the loop's record after uploadImage(key) has ended with outcome up and
\* the loop has moved on to entry n
Advance(b, up, key, n) ==
    LET uploaded == MapGet(up.m.images, key).isUploaded
    IN  [b EXCEPT
            !.idx = n,
            !.ok = @ /\ up.ok,
            !.done = IF uploaded /\ up.saved THEN @ \cup {key} ELSE @,
            !.lost = IF uploaded /\ ~up.saved THEN @ \cup {key} ELSE @,
            !.handed = IF up.handed THEN Append(@, key) ELSE @,
            !.failed = IF up.ok THEN @ ELSE @ \cup {key}]

\* uploadAllImages whose loop ends at the first upload that fails
UploadAllStep_stopsAtFailure(result, fault) ==
    /\ Continue(fault # "none")
    /\ ~Idle
    /\ LET i == batch.inst
           key == mgr[i].images[batch.idx].key
           up == uploadImage(fs, mgr[i], settings, key, result, fault)
           n == IF up.ok THEN NextPending(up.m.images, batch.idx + 1) ELSE 0
           b == Advance(batch, up, key, n)
       IN  /\ fs' = up.fs
           /\ batch' = IF n = 0 THEN NoBatch ELSE b
           /\ mgr' = Collect([mgr EXCEPT ![i] = up.m], managers, calls, batch')
           /\ last' = IF n = 0 THEN UploadAllReturned(b, up.m.images) ELSE Quiet
    /\ UNCHANGED <<vault, settings, managers, calls>>

\* the upload in flight completes and uploadImage runs to its end; the loop
\* starts the next upload, or ends and uploadAllImages returns
UploadAllStep(result, fault) ==
    /\ Continue(fault # "none")
    /\ ~Idle
    /\ LET i == batch.inst
           key == mgr[i].images[batch.idx].key
           up == uploadImage(fs, mgr[i], settings, key, result, fault)
           n == NextPending(up.m.images, batch.idx + 1)
           b == Advance(batch, up, key, n)
       IN  /\ fs' = up.fs
           /\ batch' = IF n = 0 THEN NoBatch ELSE b
           /\ mgr' = Collect([mgr EXCEPT ![i] = up.m], managers, calls, batch')
           /\ last' = IF n = 0 THEN UploadAllReturned(b, up.m.images) ELSE Quiet
    /\ UNCHANGED <<vault, settings, managers, calls>>

\* entries of a map that downloadAllImages finds without a local file
Eligible(f, images) ==
    {i \in DOMAIN images :
        /\ images[i].info.isUploaded
        /\ \/ images[i].info.localPath = EmptyPath
           \/ ~existsFile(f, images[i].info.localPath)}

\* what is recorded of a downloadAllImages call with outcome d
DownloadAllReturned(d, before, f) ==
    [op |-> "downloadAllImages", ok |-> d.ok,
     tried |-> Cardinality(d.tried),
     local |-> UploadedAreLocal(d.fs, d.m),
     eligible |-> Eligible(f, before),
     attempted |-> d.tried, failed |-> d.failed,
     raised |-> d.raised, saves |-> d.saves]

\* failAt = 0: no call throws; otherwise the call named throws at entry
\* failAt, which the loop must reach
DownloadAll(h, failAt, call, saveFails) ==
    /\ Trigger(failAt > 0 \/ saveFails)
    /\ Idle
    /\ failAt <= Len(mgr[h.inst].images)
    /\ failAt = 0 => call = "download"
    /\ LET d == downloadAllImages(fs, mgr[h.inst], vault, settings, failAt, call, saveFails)
           cl == Release(calls, h)
       IN  /\ failAt > 0 => IF call = "exists" THEN d.raised ELSE failAt \in d.failed
           /\ saveFails => ~d.raised
           /\ fs' = d.fs
           /\ calls' = cl
           /\ mgr' = Collect([mgr EXCEPT ![h.inst] = d.m], managers, cl, batch)
           /\ last' = DownloadAllReturned(d, mgr[h.inst].images, fs)
    /\ UNCHANGED <<vault, settings, managers, batch>>

\* the host renames a document and the plugin's handler calls renameManager;
\* newPath = oldPath: renameManager is called with the path the document has
DocumentRenamed(oldPath, newPath, fault) ==
    /\ Trigger(fault # "none")
    /\ Idle
    /\ oldPath \in vault
    /\ newPath \notin vault \/ newPath = oldPath
    /\ LET v == (vault \ {oldPath}) \cup {newPath}
           r == renameManager(fs, mgr, managers, v, settings, oldPath, newPath, fault)
           cl == Invalidate(calls, {oldPath, newPath})
       IN  /\ vault' = v
           /\ fs' = r.fs
           /\ managers' = r.cache
           /\ calls' = cl
           /\ mgr' = Collect(r.heap, r.cache, cl, batch)
           /\ last' = IF oldPath \in DOMAIN managers
                      THEN [op |-> "renameManager", had |-> TRUE, res |-> r.res,
                            oldPath |-> oldPath, newPath |-> newPath,
                            cache |-> managers,
                            inst |-> managers[oldPath],
                            before |-> mgr[managers[oldPath]],
                            files |-> list(fs, mgr[managers[oldPath]].imageFolderPath),
                            folder |-> existsDir(fs, mgr[managers[oldPath]].imageFolderPath),
                            threw |-> r.threw]
                      ELSE [op |-> "renameManager", had |-> FALSE, res |-> r.res,
                            oldPath |-> oldPath, newPath |-> newPath,
                            cache |-> managers]
    /\ UNCHANGED <<settings, batch>>

\* the host deletes a document and the plugin's handler calls removeManager
DocumentDeleted(mdPath) ==
    /\ Trigger(FALSE)
    /\ Idle
    /\ mdPath \in vault
    /\ vault' = vault \ {mdPath}
    /\ LET cache == removeManager(managers, mdPath)
           cl == Invalidate(calls, {mdPath})
       IN  /\ managers' = cache
           /\ calls' = cl
           /\ mgr' = Collect(mgr, cache, cl, batch)
    /\ last' = Quiet
    /\ UNCHANGED <<settings, fs, batch>>

DocumentCreated(mdPath) ==
    /\ Trigger(FALSE)
    /\ Idle
    /\ mdPath \in DocNames \ vault
    /\ vault' = vault \cup {mdPath}
    /\ last' = Quiet
    /\ UNCHANGED <<settings, fs, mgr, managers, calls, batch>>

\* SettingsTab onChange handlers
SetIsAutoUpload(value) ==
    /\ Trigger(FALSE)
    /\ Idle
    /\ value # settings.isAutoUpload
    /\ settings' = [settings EXCEPT !.isAutoUpload = value]
    /\ last' = Quiet
    /\ UNCHANGED <<vault, fs, mgr, managers, calls, batch>>

SetIsDeleteTemp(value) ==
    /\ Trigger(FALSE)
    /\ Idle
    /\ value # settings.isDeleteTemp
    /\ settings' = [settings EXCEPT !.isDeleteTemp = value]
    /\ last' = Quiet
    /\ UNCHANGED <<vault, fs, mgr, managers, calls, batch>>

SetTempFolderPath(value) ==
    /\ Trigger(FALSE)
    /\ Idle
    /\ value # settings.tempFolderPath
    /\ settings' = [settings EXCEPT !.tempFolderPath = value]
    /\ last' = Quiet
    /\ UNCHANGED <<vault, fs, mgr, managers, calls, batch>>

\* keys a caller may pass to removeImage: a key of the map, or a path that
\* is none
RemoveKeys(h) == MapKeys(mgr[h.inst].images) \cup {EmptyPath}

NextWith(addF, removeF, uploadF, renameF, ioFails) ==
    \/ \E c \in CallIds, d \in DocNames : GetManagerStart(c, d)
    \/ \E c \in CallIds : GetManagerFinish(c)
    \/ \E h \in Handles, n \in SourceNames, now \in Clock, r \in UploadResults,
          fault \in addF : AddImage(h, n, now, r, fault)
    \/ \E h \in Handles, fault \in removeF :
          \E k \in RemoveKeys(h) : RemoveImage(h, k, fault)
    \/ \E h \in Handles : UploadAllStart(h)
    \/ \E r \in UploadResults, fault \in uploadF : UploadAllStep(r, fault)
    \/ \E h \in Handles, failAt \in 0..MaxImages, call \in DownloadCalls,
          saveFails \in ioFails :
          /\ failAt > 0 => TRUE \in ioFails
          /\ DownloadAll(h, failAt, call, saveFails)
    \/ \E old \in DocNames, new \in DocNames, fault \in renameF :
          old # new /\ DocumentRenamed(old, new, fault)
    \/ \E d \in DocNames : DocumentDeleted(d)
    \/ \E d \in DocNames : DocumentCreated(d)
    \/ \E b \in BOOLEAN : SetIsAutoUpload(b)
    \/ \E b \in BOOLEAN : SetIsDeleteTemp(b)
    \/ \E tpl \in FolderTemplates : SetTempFolderPath(tpl)

Next == NextWith(AddFaults, RemoveFaults, UploadFaults, RenameFaults, BOOLEAN)

Spec == Init /\ [][Next]_vars

\* the same program over a vault, a network and an uploader that never fail
NextNoFault == NextWith({"none"}, {"none"}, {"none"}, {"none"}, {FALSE})

SpecNoFault == Init /\ [][NextNoFault]_vars

----------------------------------------------------------------------------
(* A session that starts over a vault left by earlier sessions: document   *)
(* "a" has its manager cached, holding a map of up to MaxImages records,   *)
(* and the asset folder holds any of the image files and any sidecar.  One *)
(* method is called on that manager.                                       *)

LeftKeys(folder) ==
    <<Path(folder, ImageName("img")),
      Path(folder, NameWithTimestamp(ImageName("img"), 1))>>
IndexKey == Path(<<>>, [stem |-> "7", ts |-> 0, ext |-> ""])
LeftInfos(k) ==
    {[localPath |-> k, remotePath |-> r, isUploaded |-> u,
      originalName |-> ImageName("img")] : r \in {EmptyPath, RemoteUrl}, u \in BOOLEAN}
LeftMaps(folder) ==
    LET k == LeftKeys(folder)
    IN  {<<>>}
          \cup {<<[key |-> k[1], info |-> i]>> : i \in LeftInfos(k[1])}
          \cup {<<[key |-> k[1], info |-> i], [key |-> k[2], info |-> j]>> :
                   i \in LeftInfos(k[1]), j \in LeftInfos(k[2])}
          \cup {<<[key |-> k[1], info |-> i],
                  [key |-> IndexKey, info |-> createImageInfo(IndexKey)]>> :
                   i \in LeftInfos(k[1])}
LeftSidecars(folder) ==
    Malformed \cup {[mdPath |-> "a", images |-> fromEntries(im)] : im \in LeftMaps(folder)}
LeftSettings == {[DEFAULT_SETTINGS EXCEPT !.tempFolderPath = t] : t \in FolderTemplates}

InitLeft ==
    /\ vault = {"a"}
    /\ settings \in LeftSettings
    /\ LET m == newManager(vault, settings, "a")
           folder == m.imageFolderPath
           keys == {LeftKeys(folder)[i] : i \in 1..2}
       IN  /\ mgr \in {[i \in {1} |-> [m EXCEPT !.images = im]] : im \in LeftMaps(folder)}
           /\ fs \in {[dirs |-> {folder}, bin |-> b, json |-> NoFunction] :
                         b \in (SUBSET keys) \ {{}}}
                   \cup {EmptyFs}
                   \cup {[dirs |-> {folder}, bin |-> b,
                          json |-> [q \in {getJsonPath(m, folder)} |-> c]] :
                            b \in SUBSET keys, c \in LeftSidecars(folder)}
    /\ managers = [d \in {"a"} |-> 1]
    /\ calls = [c \in CallIds |-> NoCall]
    /\ batch = NoBatch
    /\ steps = 0
    /\ faults = 0
    /\ last = Quiet
    /\ tasks = [c \in TaskIds |-> NoTask]

\* the one call of the session
First == steps = 0 /\ Trigger(FALSE)

LoadFromJson ==
    /\ First
    /\ LET ld == loadFromJson(fs, mgr[1])
       IN  /\ mgr' = [mgr EXCEPT ![1] = ld.m]
           /\ last' = [op |-> "loadFromJson", ok |-> ld.ok, before |-> mgr[1].images]
    /\ UNCHANGED <<vault, settings, fs, managers, calls, batch>>

\* saveToJson on the manager, then a manager constructed for the same
\* document loads what was saved
SaveThenLoad(saveFails) ==
    /\ steps = 0 /\ Trigger(saveFails)
    /\ LET sv == saveToJson(fs, mgr[1], saveFails)
           ld == loadFromJson(sv.fs, newManager(vault, settings, mgr[1].mdPath))
       IN  /\ fs' = sv.fs
           /\ last' = [op |-> "saveThenLoad", saved |-> sv.ok, loaded |-> ld.ok,
                       fresh |-> ld.m.images, stale |-> sidecarExists(fs, mgr[1])]
    /\ UNCHANGED <<vault, settings, mgr, managers, calls, batch>>

\* templates a caller may pass to process
Templates ==
    FolderTemplates \cup
    {<<>>,
     <<Lit("images/{{file-name}}")>>,
     <<Var("filename"), Lit("-"), Var("filename")>>,
     <<Var("date"), Lit("/"), Var("filename")>>,
     <<Lit("_assets."), Var("nokey")>>,
     <<Lit("_assets."), Var("constructor")>>}

\* process(template, getContext(filePath)), as getImageFolderPath calls it
Process(template, filePath) ==
    /\ First
    /\ last' = [op |-> "process", template |-> template,
                context |-> getContext(vault, filePath),
                out |-> process(template, getContext(vault, filePath))]
    /\ UNCHANGED <<vault, settings, fs, mgr, managers, calls, batch>>

GetMarkdownReference(localPath) ==
    /\ First
    /\ last' = [op |-> "getMarkdownReference", localPath |-> localPath,
                ref |-> getMarkdownReference(mgr[1], localPath)]
    /\ UNCHANGED <<vault, settings, fs, mgr, managers, calls, batch>>

NextLeft ==
    \/ LoadFromJson
    \/ \E i \in 1..2 : GetMarkdownReference(LeftKeys(mgr[1].imageFolderPath)[i])
    \/ GetMarkdownReference(IndexKey)
    \/ \E template \in Templates, filePath \in DocNames : Process(template, filePath)
    \/ \E saveFails \in BOOLEAN : SaveThenLoad(saveFails)
    \/ \E failAt \in 0..MaxImages, call \in DownloadCalls, saveFails \in BOOLEAN :
          steps = 0 /\ DownloadAll([c |-> 0, inst |-> 1], failAt, call, saveFails)
    \/ \E newPath \in DocNames, fault \in RenameFaults :
          steps = 0 /\ DocumentRenamed("a", newPath, fault)

SpecLeft == InitLeft /\ [][NextLeft]_vars

----------------------------------------------------------------------------
(* Calls that overlap.  addImage, removeImage and uploadAllImages are async *)
(* functions: a call runs up to its next await and the calls in progress on *)
(* one manager resume in any order.  A step of a call is the adapter or     *)
(* uploader call it awaits, completing, with the code that follows it up to *)
(* the next await.  No call is made to fail; an adapter call throws when    *)
(* another call has taken away what it works on (a file to remove, the      *)
(* folder to write into).                                                   *)

\* [t, fs, m]: the call, the vault and the manager after a step; threw: the
\* awaited call threw; left: keys whose record left the map in the step (by
\* images.delete, or images.set over the key); at: the position deleted
Stepped(t, f, m) ==
    [t |-> t, fs |-> f, m |-> m, threw |-> FALSE, left |-> {}, at |-> 0]
Thrown(t, f, m) ==
    [t |-> t, fs |-> f, m |-> m, threw |-> TRUE, left |-> {}, at |-> 0]

\* saveToJson up to its first await: the size test, and for a map that is not
\* empty the object {mdPath, images: Object.fromEntries(this.images)}
saveEnter(t, m) ==
    IF Len(m.images) = 0
    THEN [t EXCEPT !.pc = "save.existsJson", !.data = <<>>, !.gone = {}]
    ELSE [t EXCEPT !.pc = "save.existsFolder", !.data = fromEntries(m.images),
                   !.gone = {}]

\* JSON.stringify(data) at the time of the write: data holds the record
\* objects themselves, so a record still in the map is written as it is now,
\* and one that has left the map as it was when data was built
stringify(t, m) ==
    [i \in DOMAIN t.data |->
        IF t.data[i].key \notin t.gone /\ MapHas(m.images, t.data[i].key)
        THEN [key |-> t.data[i].key, info |-> MapGet(m.images, t.data[i].key)]
        ELSE t.data[i]]

\* the for-of loop of uploadAllImages from position `from` of the live
\* iterator: uploadImage is entered for the next record not uploaded and
\* suspends in uploader.upload, or the loop ends and the call returns
iterate(t, m, from) ==
    LET n == NextPending(m.images, from)
    IN  IF n = 0 THEN NoTask
        ELSE [t EXCEPT !.pc = "upload", !.key = m.images[n].key, !.idx = n,
                       !.up = TRUE, !.held = TRUE, !.data = <<>>, !.gone = {}]

\* uploadImage has returned to addImage or to the loop of uploadAllImages
uploadReturn(t, m) ==
    IF t.op = "uploadAllImages" THEN iterate(t, m, t.idx + 1) ELSE NoTask

\* uploadImage(key) called by addImage, up to its await
uploadEnter(t, m, key) ==
    IF ~MapHas(m.images, key) \/ MapGet(m.images, key).isUploaded
    THEN uploadReturn(t, m)
    ELSE [t EXCEPT !.pc = "upload", !.key = key, !.up = TRUE, !.held = TRUE,
                   !.data = <<>>, !.gone = {}]

\* saveToJson has returned: to addImage or removeImage, or to uploadImage
afterSave(t, m, s) ==
    IF t.up
    THEN IF s.isDeleteTemp
         THEN [t EXCEPT !.pc = "up.exists", !.data = <<>>, !.gone = {}]
         ELSE uploadReturn(t, m)
    ELSE IF t.op = "addImage" /\ s.isAutoUpload
    THEN uploadEnter(t, m, t.key)
    ELSE NoTask

\* removeImage that builds the object to save before it deletes the entry
deleteAndSave_saveFirst(t, f, m) ==
    LET m1 == [m EXCEPT !.images = MapDelete(@, t.key)]
    IN  [t |-> saveEnter(t, m), fs |-> f, m |-> m1, threw |-> FALSE,
         left |-> {t.key} \cap MapKeys(m.images),
         at |-> IF MapHas(m.images, t.key) THEN MapIndex(m.images, t.key) ELSE 0]

\* removeImage after the file is gone: images.delete, then saveToJson
deleteAndSave(t, f, m) ==
    LET m1 == [m EXCEPT !.images = MapDelete(@, t.key)]
    IN  [t |-> saveEnter(t, m1), fs |-> f, m |-> m1, threw |-> FALSE,
         left |-> {t.key} \cap MapKeys(m.images),
         at |-> IF MapHas(m.images, t.key) THEN MapIndex(m.images, t.key) ELSE 0]

\* the call t resumes from the await it is suspended at; result: what
\* uploader.upload resolves to; throws: uploader.upload rejects
resume(t, f, m, s, now, result, throws) ==
    LET folder == m.imageFolderPath
        jsonPath == getJsonPath(m, folder)
        at(pc) == [t EXCEPT !.pc = pc]
    IN  CASE t.pc = "copy.existsFolder" ->
               Stepped(at(IF existsDir(f, folder) THEN "copy.existsTarget"
                          ELSE "copy.mkdir"), f, m)
          [] t.pc = "copy.mkdir" ->
               Stepped(at("copy.existsTarget"), mkdir(f, folder), m)
          [] t.pc = "copy.existsTarget" ->
               Stepped([t EXCEPT !.pc = "copy.write",
                                 !.key = IF existsFile(f, Path(folder, t.name))
                                         THEN Path(folder, NameWithTimestamp(t.name, now))
                                         ELSE Path(folder, t.name)], f, m)
          [] t.pc = "copy.write" ->
               IF ~existsDir(f, folder) THEN Thrown(NoTask, f, m)
               ELSE Stepped(at("stat"), writeBinary(f, t.key), m)
          [] t.pc = "stat" ->
               LET info == [createImageInfo(t.key) EXCEPT !.originalName = t.name]
                   m1 == [m EXCEPT !.images = MapSet(@, t.key, info)]
               IN  [t |-> saveEnter(t, m1), fs |-> f, m |-> m1, threw |-> FALSE,
                    left |-> {t.key} \cap MapKeys(m.images), at |-> 0]
          [] t.pc = "save.existsJson" ->
               Stepped(at(IF existsFile(f, jsonPath) THEN "save.removeJson"
                          ELSE "save.existsDir"), f, m)
          [] t.pc = "save.removeJson" ->
               IF ~existsFile(f, jsonPath) THEN Thrown(afterSave(t, m, s), f, m)
               ELSE Stepped(at("save.existsDir"), remove(f, jsonPath), m)
          [] t.pc = "save.existsDir" ->
               IF existsDir(f, folder) THEN Stepped(at("save.rmdir"), f, m)
               ELSE Stepped(afterSave(t, m, s), f, m)
          [] t.pc = "save.rmdir" ->
               IF ~existsDir(f, folder) THEN Thrown(afterSave(t, m, s), f, m)
               ELSE Stepped(afterSave(t, m, s), rmdir(f, folder), m)
          [] t.pc = "save.existsFolder" ->
               Stepped(at(IF existsDir(f, folder) THEN "save.write" ELSE "save.mkdir"),
                       f, m)
          [] t.pc = "save.mkdir" ->
               Stepped(at("save.write"), mkdir(f, folder), m)
          [] t.pc = "save.write" ->
               IF ~existsDir(f, folder) THEN Thrown(afterSave(t, m, s), f, m)
               ELSE Stepped(afterSave(t, m, s),
                            writeJson(f, jsonPath,
                                      [mdPath |-> m.mdPath, images |-> stringify(t, m)]),
                            m)
          [] t.pc = "rm.exists" ->
               IF existsFile(f, t.key) THEN Stepped(at("rm.remove"), f, m)
               ELSE deleteAndSave(t, f, m)
          [] t.pc = "rm.remove" ->
               IF ~existsFile(f, t.key) THEN Thrown(NoTask, f, m)
               ELSE deleteAndSave(t, remove(f, t.key), m)
          [] t.pc = "upload" ->
               IF throws THEN Thrown(uploadReturn(t, m), f, m)
               ELSE LET m1 == IF t.held
                              THEN [m EXCEPT !.images =
                                      MapSet(@, t.key,
                                             [MapGet(@, t.key) EXCEPT
                                                !.remotePath = Split(result)[1],
                                                !.isUploaded = TRUE])]
                              ELSE m
                    IN  Stepped(saveEnter(t, m1), f, m1)
          [] t.pc = "up.exists" ->
               IF existsFile(f, t.key) THEN Stepped(at("up.remove"), f, m)
               ELSE Stepped(uploadReturn(t, m), f, m)
          [] t.pc = "up.remove" ->
               IF ~existsFile(f, t.key) THEN Thrown(uploadReturn(t, m), f, m)
               ELSE Stepped(uploadReturn(t, m), remove(f, t.key), m)

\* what the other calls in progress see of a step: records that left the map
\* are no longer the ones they hold, and the iterator of uploadAllImages
\* stays on its entry when an entry before it is deleted
Others(ts, c, r) ==
    [u \in TaskIds |->
        IF u = c THEN r.t
        ELSE [ts[u] EXCEPT
                 !.gone = @ \cup (r.left \cap MapKeys(ts[u].data)),
                 !.held = @ /\ ts[u].key \notin r.left,
                 !.idx = IF r.at > 0 /\ @ >= r.at THEN @ - 1 ELSE @]]

InProgress == {c \in TaskIds : tasks[c].op # "none"}
\* the slot a new call takes
FreeTask(c) == c \notin InProgress /\ \A x \in TaskIds : x < c => x \in InProgress

\* what is recorded of the calls made so far: overlapped: a call started
\* while another was in progress; saved: a saveToJson call has run to its end
Calls(overlapped, saved) == [op |-> "calls", overlapped |-> overlapped, saved |-> saved]

RaceSettings ==
    {[isAutoUpload |-> u, isDeleteTemp |-> d, tempFolderPath |-> DefaultFolderTemplate] :
        u \in BOOLEAN, d \in BOOLEAN}

\* the manager of "a" as getManager returns it: over an empty vault, over a
\* sidecar that holds one record with its file, or over a sidecar that holds
\* no object of records
InitRace ==
    /\ vault = {"a"}
    /\ settings \in RaceSettings
    /\ LET m == newManager(vault, settings, "a")
           folder == m.imageFolderPath
           k == Path(folder, ImageName("old"))
           im == <<[key |-> k, info |-> [createImageInfo(k) EXCEPT
                                           !.originalName = ImageName("old")]]>>
       IN  \/ /\ fs = EmptyFs
              /\ mgr = [i \in {1} |-> m]
           \/ /\ fs = [dirs |-> {folder}, bin |-> {k},
                       json |-> [q \in {getJsonPath(m, folder)} |->
                                    sidecarOf([m EXCEPT !.images = im])]]
              /\ mgr = [i \in {1} |-> [m EXCEPT !.images = im]]
           \/ /\ fs = [dirs |-> {folder}, bin |-> {},
                       json |-> [q \in {getJsonPath(m, folder)} |-> JsonOther]]
              /\ mgr = [i \in {1} |-> m]
    /\ managers = [d \in {"a"} |-> 1]
    /\ calls = [c \in CallIds |-> NoCall]
    /\ batch = NoBatch
    /\ steps = 0
    /\ faults = 0
    /\ last = Calls(FALSE, FALSE)
    /\ tasks = [c \in TaskIds |-> NoTask]

\* a call is made on the manager and runs up to its first await
Called(c, t) ==
    /\ steps < MaxRaceCalls
    /\ steps' = steps + 1
    /\ FreeTask(c)
    /\ tasks' = [tasks EXCEPT ![c] = t]
    /\ last' = Calls(last.overlapped \/ InProgress # {}, last.saved)
    /\ UNCHANGED <<vault, settings, fs, mgr, managers, calls, batch, faults>>

AddImageCalled(c, sourceName) ==
    Called(c, [NoTask EXCEPT !.op = "addImage", !.pc = "copy.existsFolder",
                             !.name = sourceName])

RemoveImageCalled(c, localPath) ==
    Called(c, IF MapHas(mgr[1].images, localPath)
              THEN [NoTask EXCEPT !.op = "removeImage", !.pc = "rm.exists",
                                  !.key = localPath]
              ELSE NoTask)

UploadAllCalled(c) ==
    Called(c, iterate([NoTask EXCEPT !.op = "uploadAllImages"], mgr[1], 1))

SavePcs == {"save.existsDir", "save.rmdir", "save.write"}

\* the call c resumes
Resumed(c, result, throws) ==
    /\ c \in InProgress
    /\ tasks[c].pc # "upload" => (result = <<RemoteUrl>> /\ ~throws)
    /\ (tasks[c].pc = "upload" /\ throws) => ~existsFile(fs, tasks[c].key)
    /\ LET r == resume(tasks[c], fs, mgr[1], settings, 1, result, throws)
       IN  /\ fs' = r.fs
           /\ mgr' = [mgr EXCEPT ![1] = r.m]
           /\ tasks' = Others(tasks, c, r)
           /\ faults' = IF r.threw /\ faults < MaxFaults THEN faults + 1 ELSE faults
           /\ last' = Calls(last.overlapped,
                            \/ last.saved
                            \/ /\ tasks[c].pc \in SavePcs
                               /\ r.t.pc \notin SavePcs
                               /\ ~r.threw)
    /\ UNCHANGED <<vault, settings, managers, calls, batch, steps>>

NextRace ==
    \/ \E c \in TaskIds, n \in {ImageName("img"), ImageName("old")} : AddImageCalled(c, n)
    \/ \E c \in TaskIds : \E k \in RemoveKeys([inst |-> 1]) : RemoveImageCalled(c, k)
    \/ \E c \in TaskIds : UploadAllCalled(c)
    \/ \E c \in TaskIds, r \in UploadResults, throws \in BOOLEAN : Resumed(c, r, throws)

SpecRace == InitRace /\ [][NextRace]_vars

----------------------------------------------------------------------------
(* Properties *)

\* managers the factory hands out on a cache hit
Cached == {managers[d] : d \in DOMAIN managers}
\* a record with its path fields left out, under the base name of its key
Carried(im) ==
    {[name |-> im[i].key.name,
      info |-> [im[i].info EXCEPT !.localPath = EmptyPath]] : i \in DOMAIN im}

\* C1: whenever no operation is in progress, the sidecar file and the asset
\* folder of a manager both exist if and only if its images map is non-empty.
C1_SidecarAndFolderIffImages ==
    Idle =>
        \A i \in Cached :
            (sidecarExists(fs, mgr[i]) /\ existsDir(fs, mgr[i].imageFolderPath))
                <=> Len(mgr[i].images) > 0

\* C2: the getManager calls for one document that have returned, with no
\* rename or removal of its cache entry since, all hold the same instance,
\* the one the cache holds for the document.
C2_SameInstance ==
    \A c1 \in CallIds :
        (calls[c1].pc = "ready" /\ calls[c1].valid) =>
            /\ \A c2 \in CallIds :
                  (calls[c2].pc = "ready" /\ calls[c2].valid
                      /\ calls[c2].doc = calls[c1].doc)
                  => calls[c2].inst = calls[c1].inst
            /\ calls[c1].doc \in DOMAIN managers
                  => managers[calls[c1].doc] = calls[c1].inst

\* C3: when a step of renameImageFolder fails on a manager with a non-empty
\* map, the call returns false (it does not raise) and mdPath and
\* imageFolderPath are what they were before the call.
C3_RenameFailureRollsBack ==
    (last.op = "renameManager" /\ last.had
        /\ Len(last.before.images) > 0 /\ last.threw)
    => /\ last.res = "false"
       /\ mgr[last.inst].mdPath = last.before.mdPath
       /\ mgr[last.inst].imageFolderPath = last.before.imageFolderPath

\* C4 (as amended): when removeImage is called with a known key and deleting
\* the underlying file fails, the call returns false and the entry is still
\* in the in-memory map.
C4_FailedDeletionKeepsEntry ==
    (last.op = "removeImage" /\ last.known /\ last.fault = "remove")
    => (~last.ok /\ last.stillKnown)

\* C4 as stated: the entry is removed from the map even when deleting the
\* file fails, and the call returns false.
C4_FailedDeletionRemovesEntry ==
    (last.op = "removeImage" /\ last.known /\ last.fault = "remove")
    => (~last.ok /\ ~last.stillKnown)

C4_Witness ==
    /\ last.op = "removeImage"
    /\ last.known
    /\ last.existed
    /\ last.fault = "remove"

\* C5: every image record with isUploaded = true has a non-empty remotePath.
C5_UploadedHasRemotePath ==
    \A i \in DOMAIN mgr :
        \A j \in DOMAIN mgr[i].images :
            mgr[i].images[j].info.isUploaded
                => mgr[i].images[j].info.remotePath # EmptyPath

\* C6: an addImage call that stores its copy stores it at a path where no
\* file existed before the call and under a key the map did not hold.
C6_NoOverwriteDistinctKeys ==
    (last.op = "addImage" /\ last.kind # "raise")
    => (~last.existed /\ ~last.hadKey)

\* C7: renameManager returns false and leaves the cache unchanged when no
\* manager is cached under oldPath; when renameImageFolder returns true the
\* manager is cached under newPath and no longer under oldPath; when it
\* returns false the cache still maps oldPath to the manager and the
\* manager's mdPath is oldPath.
C7_RenameManager ==
    last.op = "renameManager" =>
        /\ ~last.had => (last.res = "false" /\ managers = last.cache)
        /\ (last.had /\ last.res = "true") =>
              /\ last.newPath \in DOMAIN managers
              /\ managers[last.newPath] = last.inst
              /\ last.oldPath \notin DOMAIN managers
        /\ (last.had /\ last.res = "false") =>
              /\ last.oldPath \in DOMAIN managers
              /\ managers[last.oldPath] = last.inst
              /\ mgr[last.inst].mdPath = last.oldPath

\* C8: when renameImageFolder returns true and the old and new asset folders
\* differ, every file of the old folder exists under the new folder, every
\* key of the map lies under the new folder with the other fields of its
\* record unchanged, the sidecar exists at the new location and the old
\* folder is gone.
C8_RenameMovesEverything ==
    (last.op = "renameManager" /\ last.had /\ last.res = "true"
        /\ Len(last.before.images) > 0
        /\ mgr[last.inst].imageFolderPath # last.before.imageFolderPath)
    => LET after == mgr[last.inst]
       IN  /\ \A p \in last.files :
                 existsFile(fs, Path(after.imageFolderPath, p.name))
           /\ \A k \in MapKeys(after.images) : k.folder = after.imageFolderPath
           /\ Carried(after.images) = Carried(last.before.images)
           /\ sidecarExists(fs, after)
           /\ ~existsDir(fs, last.before.imageFolderPath)

\* the sidecar on disk records k as uploaded, with the remotePath in memory
Recorded(k) ==
    LET m == mgr[batch.inst]
        jsonPath == getJsonPath(m, m.imageFolderPath)
    IN  /\ jsonPath \in DOMAIN fs.json
        /\ MapHas(fs.json[jsonPath].images, k)
        /\ MapGet(fs.json[jsonPath].images, k).isUploaded
        /\ MapGet(fs.json[jsonPath].images, k).remotePath
              = MapGet(m.images, k).remotePath

C10_DownloadedAreLocal ==
    (last.op = "downloadAllImages" /\ last.ok) => last.local

\* what the sidecar of manager m holds, Unparsable when it holds nothing
sidecarData(f, m) ==
    IF sidecarExists(f, m) THEN f.json[getJsonPath(m, m.imageFolderPath)] ELSE Unparsable

\* C11: loadFromJson returns false and leaves the map as it was when the
\* sidecar is missing or malformed (unparsable, or parsed to something that
\* is not the {mdPath, images} object); when the sidecar is well formed it
\* replaces the map by the sidecar's records and returns true.
C11_LoadAllOrNothing ==
    last.op = "loadFromJson" =>
        IF "images" \in DOMAIN sidecarData(fs, mgr[1])
        THEN last.ok /\ mgr[1].images = sidecarData(fs, mgr[1]).images
        ELSE ~last.ok /\ mgr[1].images = last.before

\* C12: after removeImage has removed the last record of a manager, neither
\* the sidecar nor the asset folder exists; after addImage has returned
\* normally on a manager whose map was empty, both exist.
C12_FirstAndLast ==
    /\ (last.op = "removeImage" /\ last.known /\ ~last.stillKnown /\ last.empty)
          => ~last.sidecar /\ ~last.folder
    /\ (last.op = "addImage" /\ last.kind # "raise" /\ last.wasEmpty)
          => last.sidecar /\ last.folder

\* keys of a sequence, and whether no key occurs in it twice
Range(q) == {q[i] : i \in DOMAIN q}
NoRepeat(q) == \A i, j \in DOMAIN q : q[i] = q[j] => i = j

C14_HandsPendingOnce ==
    last.op = "uploadAllImages" =>
        /\ Range(last.handed) = last.pending
        /\ NoRepeat(last.handed)

\* uploadAllImages has returned from a map holding an uploaded record and
\* one that was not
C14_Witness ==
    /\ last.op = "uploadAllImages"
    /\ Len(last.handed) = 1
    /\ last.done \cup last.lost # {}
    /\ \E h \in Handles : Len(mgr[h.inst].images) = 2

SameEntries(im1, im2) ==
    /\ Len(im1) = Len(im2)
    /\ MapKeys(im1) = MapKeys(im2)
    /\ \A k \in MapKeys(im1) : MapGet(im1, k) = MapGet(im2, k)

C17_AddImageReturns ==
    (last.op = "addImage" /\ last.kind # "raise") =>
        /\ last.kind = "remote" <=> (settings.isAutoUpload /\ last.uploaded)
        /\ last.kind = "remote" => last.url # EmptyPath
        /\ last.kind = "local" =>
              \A mdDir \in MdDirs : last.returned[mdDir] = FromDocument(last.target)
        /\ last.kept

\* C18: when the copy of the source file fails in addImage, the failure is
\* raised to the caller and the map holds the records it held before.
C18_CopyFailureRaised ==
    (last.op = "addImage" /\ last.copyFailed) => (last.kind = "raise" /\ last.same)

\* the copy failed in a manager that already held a record
C18_Witness ==
    last.op = "addImage" /\ last.copyFailed /\ ~last.wasEmpty

\* C19: process(template, context) replaces every {{name}} whose name is a
\* key defined in context by context[name], leaves every other {{name}} as
\* the literal text, returns a template without placeholders unchanged and
\* the empty template as the empty string.
C19_Substitute ==
    last.op = "process" =>
        /\ DOMAIN last.out = DOMAIN last.template
        /\ \A i \in DOMAIN last.template :
              LET token == last.template[i]
              IN  last.out[i] = IF token.var /\ token.text \in DOMAIN last.context
                                THEN Lit(last.context[token.text])
                                ELSE token

\* C20: getMarkdownReference(localPath) returns the empty string when
\* localPath is not a key of the map; otherwise an embed of the remote URL
\* when the record is uploaded and has a remote path, and an embed of the
\* path of the file relative to the document's directory when not.
C20_MarkdownReference ==
    last.op = "getMarkdownReference" =>
        LET im == mgr[1].images
            ref == last.ref
        IN  IF ~MapHas(im, last.localPath)
            THEN ref.kind = "empty"
            ELSE IF MapGet(im, last.localPath).isUploaded
                    /\ MapGet(im, last.localPath).remotePath # EmptyPath
            THEN ref.kind = "remote" /\ ref.url = MapGet(im, last.localPath).remotePath
            ELSE /\ ref.kind = "local"
                 /\ \A mdDir \in MdDirs : ref.path[mdDir] = FromDocument(last.localPath)

\* C21: whenever no rename is in progress, the imageFolderPath of a manager
\* is the folder template now configured, processed in the context of the
\* manager's mdPath and joined to the document's directory, whatever manager
\* operations, document renames and changes of the template came before; and
\* addImage writes its copy into that folder.
C21_FolderFollowsTemplate ==
    /\ \A i \in DOMAIN mgr :
          mgr[i].imageFolderPath = getImageFolderPath(vault, settings, mgr[i].mdPath)
    /\ (last.op = "addImage" /\ last.kind # "raise") =>
          last.target.folder = getImageFolderPath(vault, settings, last.mdPath)

\* C22: whenever no rename is in progress, every key of a manager's images
\* map is a path inside the manager's current imageFolderPath, also after
\* renameImageFolder has returned true over a missing old folder or has
\* renamed a manager holding records whose local files were deleted after
\* their upload.
C22_KeysInsideFolder ==
    \A i \in DOMAIN mgr :
        \A k \in MapKeys(mgr[i].images) : k.folder = mgr[i].imageFolderPath

\* renameImageFolder was called on a non-empty manager whose old folder
\* existed, no call of it threw, and the folder of the new document is the
\* old one
SameFolderRename ==
    /\ last.op = "renameManager" /\ last.had
    /\ Len(last.before.images) > 0
    /\ last.folder /\ ~last.threw
    /\ getImageFolderPath(vault, settings, last.newPath) = last.before.imageFolderPath

\* C23: when renameImageFolder on a non-empty manager finds the new asset
\* folder to be the old one, it returns true, a sidecar named after the new
\* document exists in that folder afterwards, and the image files of the
\* folder and the keys of the map are what they were.
C23_SameFolderMovesSidecar ==
    SameFolderRename =>
        /\ last.res = "true"
        /\ existsFile(fs, Path(last.before.imageFolderPath,
                               [stem |-> last.newPath, ts |-> 0, ext |-> ".json"]))
        /\ {p \in last.files : p.name.ext # ".json"}
              = {p \in fs.bin : p.folder = last.before.imageFolderPath}
        /\ MapKeys(mgr[last.inst].images) = MapKeys(last.before.images)

\* the sidecar of manager m holds exactly the records of its map, and is
\* absent exactly when the map is empty
Mirrors(f, m) ==
    IF Len(m.images) = 0 THEN ~sidecarExists(f, m)
    ELSE /\ sidecarExists(f, m)
         /\ "images" \in DOMAIN sidecarData(f, m)
         /\ SameEntries(sidecarData(f, m).images, m.images)

\* C24 (as amended): after addImage, removeImage and uploadAllImages calls on
\* one manager, each completed before the next started, none of whose I/O
\* calls failed and one of which has saved the map, the sidecar holds
\* exactly the records of the map and is absent exactly when the map is
\* empty.
C24_CallsInTurnMirror ==
    (last.op = "calls" /\ InProgress = {} /\ faults = 0
        /\ ~last.overlapped /\ last.saved)
    => Mirrors(fs, mgr[1])

\* C24 as stated: the same after any interleaving of the calls in which no
\* I/O call failed.
C24_AnyInterleavingMirrors ==
    (last.op = "calls" /\ InProgress = {} /\ faults = 0 /\ last.saved)
    => Mirrors(fs, mgr[1])

\* three calls made in turn have completed and left two records
C24_Witness ==
    /\ last.op = "calls" /\ InProgress = {} /\ faults = 0
    /\ ~last.overlapped /\ last.saved
    /\ steps = MaxRaceCalls
    /\ Len(mgr[1].images) = 2

\* C25: every manager in the factory's cache is cached under its own mdPath,
\* whatever getManager, renameManager and removeManager calls came before,
\* renames of managers with an empty map included.
C25_CachedUnderOwnPath ==
    \A d \in DOMAIN managers : mgr[managers[d]].mdPath = d

\* C26: every record of a manager's images map has its key as its localPath,
\* whatever addImage, removeImage, uploadAllImages, downloadAllImages,
\* renameImageFolder and loadFromJson calls came before.
C26_KeyIsLocalPath ==
    \A i \in DOMAIN mgr :
        \A j \in DOMAIN mgr[i].images :
            mgr[i].images[j].info.localPath = mgr[i].images[j].key

\* C27: after renameImageFolder has returned true for a rename between two
\* different asset folders, the new folder holds exactly one sidecar, the
\* one named after the new document, and no sidecar named after the old
\* document is left in the old folder or in the new one.
C27_OneSidecarAfterRename ==
    (last.op = "renameManager" /\ last.had /\ last.res = "true"
        /\ Len(last.before.images) > 0
        /\ mgr[last.inst].imageFolderPath # last.before.imageFolderPath)
    => LET after == mgr[last.inst]
           oldName == [stem |-> last.before.mdPath, ts |-> 0, ext |-> ".json"]
       IN  /\ {p \in DOMAIN fs.json : p.folder = after.imageFolderPath}
                 = {getJsonPath(after, after.imageFolderPath)}
           /\ after.mdPath # last.before.mdPath =>
                 /\ ~existsFile(fs, Path(after.imageFolderPath, oldName))
                 /\ ~existsFile(fs, Path(last.before.imageFolderPath, oldName))

\* C28: whenever the sidecar of a manager exists and no operation is in
\* progress, the mdPath stored in the sidecar is the manager's mdPath, also
\* after a renameImageFolder whose old and new asset folders coincide.
C28_SidecarNamesDocument ==
    Idle =>
        \A i \in Cached :
            sidecarExists(fs, mgr[i]) => sidecarData(fs, mgr[i]).mdPath = mgr[i].mdPath

\* C29: after renameManager(oldPath, newPath) has returned true the cache
\* holds the renamed manager under newPath, so that the next
\* getManager(newPath) returns it and constructs none, also when newPath is
\* oldPath.
C29_CachedUnderNewPath ==
    (last.op = "renameManager" /\ last.had /\ last.res = "true")
    => /\ last.newPath \in DOMAIN managers
       /\ managers[last.newPath] = last.inst

\* the path p, relative to the directory mdDir, as a path of the vault
Joined(mdDir, p) == IF mdDir = "." THEN p ELSE <<mdDir, "/">> \o p

\* C30: a local reference returned by addImage, or embedded by
\* getMarkdownReference, joined to the directory of the document is the
\* vault path the image record is keyed by, wherever the document is kept,
\* the vault root included.
C30_ReferenceLeadsToKey ==
    /\ (last.op = "addImage" /\ last.kind = "local") =>
          \A mdDir \in MdDirs :
              Joined(mdDir, last.returned[mdDir]) = VaultPath(mdDir, last.target)
    /\ (last.op = "getMarkdownReference" /\ last.ref.kind = "local") =>
          \A mdDir \in MdDirs :
              Joined(mdDir, last.ref.path[mdDir]) = VaultPath(mdDir, last.localPath)

====
